---- MODULE Spec2Model ----
(***************************************************************************)
(* State-machine model of the two programs of the repository:              *)
(*   - buildit/lambda_function.py : lambda_handler, the CSV-to-Kinesis     *)
(*     forwarder, with its helper _send_batch_to_kinesis;                  *)
(*   - emr_script_1.py : the table projection job (process_glue_data and   *)
(*     the __main__ block).                                                *)
(* Text (object keys, CSV fields, JSON payloads, the column argument) is   *)
(* a sequence of one-character strings.  A Python dict is a sequence of    *)
(* <<key, value>> pairs with distinct keys, in insertion order.            *)
(***************************************************************************)
EXTENDS Integers, Sequences, FiniteSets, TLC

VARIABLES
    \* ---- forwarder: the invocation's input and its environment
    event,              \* the trigger payload passed to lambda_handler
    s3_object,          \* what the object store holds at (bucket, key)
    \* ---- forwarder: lambda_handler's locals and control state
    pc,                 \* position in lambda_handler
    bucket_name,
    object_key,
    header,
    csv_pos,            \* items csv_reader has yielded so far (header included)
    row,
    record_data,
    kinesis_record,
    records_batch,
    records_sent_count,
    result,             \* the value lambda_handler returned
    raised,             \* the exception that left lambda_handler, or "none"
    \* ---- forwarder: the external services as seen from outside
    uuid_count,         \* uuid.uuid4() calls made so far
    s3_gets,            \* s3.get_object calls made so far
    calls,              \* the Records argument of each kinesis.put_records call
    in_flight,          \* put_records calls issued and not yet returned
    delivered,          \* records the stream accepted
    send_failures,      \* put_records calls that raised or reported failures
    \* ---- projection job
    argv,               \* sys.argv
    faults,             \* the external failures this run of the job meets
    catalog,            \* the Glue catalog: qualified table name -> schema
    job_pc,             \* position in emr_script_1.py
    spark,              \* the SparkSession: "none", "active" or "stopped"
    columns_to_keep,
    df,
    transformed_df,
    exit_code,          \* the argument of sys.exit, 0 when the script runs off its end
    job_failed_at,      \* the step whose exception the except clause caught, or "none"
    usage_printed,      \* the usage message of line 63 was printed
    table_ops           \* table reads and writes asked of the query engine

fwd_vars == <<event, s3_object, pc, bucket_name, object_key, header, csv_pos, row, record_data, kinesis_record, records_batch, records_sent_count, result, raised, uuid_count, s3_gets, calls, in_flight, delivered, send_failures>>

job_vars == <<argv, faults, catalog, job_pc, spark, columns_to_keep, df, transformed_df, exit_code, job_failed_at, usage_printed, table_ops>>

vars == <<fwd_vars, job_vars>>

(***************************************************************************)
(* Bounds of the model and constants of the program.                       *)
(***************************************************************************)
\* lambda_function.py:15
KINESIS_BATCH_SIZE == 500

\* emr_script_1.py:62, the length of sys.argv the job accepts
EXPECTED_ARGV_LEN == 6

\* data rows of the exhaustively enumerated small CSV objects
MaxSmallRows == 1

\* fields of a header or of a data row of the small CSV objects
MaxFields == 2

\* the large CSV objects hold q * KINESIS_BATCH_SIZE - 1, + 0, + 1 data rows,
\* q in 1..MaxFullBatches
MaxFullBatches == 2

\* the longest sys.argv the job is started with
MaxArgvLen == 7

(***************************************************************************)
(* Text helpers.                                                           *)
(***************************************************************************)
Min(a, b) == IF a <= b THEN a ELSE b

RECURSIVE Flatten(_)
\* the concatenation of a sequence of sequences
Flatten(ss) == IF ss = <<>> THEN <<>> ELSE Head(ss) \o Flatten(Tail(ss))

\* the sequences over S of length 0..n
SeqsUpTo(S, n) == UNION {[1..k -> S] : k \in 0..n}

(***************************************************************************)
(* lambda_function.py: the trigger payload (lines 23-31).                  *)
(***************************************************************************)
\* urllib.parse.unquote_plus on the escapes the model's alphabet can spell:
\* '+' is a space, %20 a space, %2B a plus; any other '%' stays as it is.
RECURSIVE unquote_plus(_)
unquote_plus(s) ==
    IF s = <<>> THEN <<>>
    ELSE IF Head(s) = "+" THEN <<" ">> \o unquote_plus(Tail(s))
    ELSE IF Head(s) = "%" /\ Len(s) >= 3 /\ SubSeq(s, 2, 3) = <<"2", "0">>
         THEN <<" ">> \o unquote_plus(SubSeq(s, 4, Len(s)))
    ELSE IF Head(s) = "%" /\ Len(s) >= 3 /\ SubSeq(s, 2, 3) = <<"2", "B">>
         THEN <<"+">> \o unquote_plus(SubSeq(s, 4, Len(s)))
    ELSE <<Head(s)>> \o unquote_plus(Tail(s))

\* the exception that lines 25-28 raise on this payload, or "none"
ExtractError(ev) ==
    IF "Records" \notin DOMAIN ev THEN "KeyError"
    ELSE IF Len(ev.Records) = 0 THEN "IndexError"
    ELSE IF "s3" \notin DOMAIN ev.Records[1] THEN "KeyError"
    ELSE IF "bucket" \notin DOMAIN ev.Records[1].s3 THEN "KeyError"
    ELSE IF "name" \notin DOMAIN ev.Records[1].s3.bucket THEN "KeyError"
    ELSE IF "object" \notin DOMAIN ev.Records[1].s3 THEN "KeyError"
    ELSE IF "key" \notin DOMAIN ev.Records[1].s3.object THEN "KeyError"
    ELSE "none"

ExtractCatches_IndexErrorMissed(err) == err = "KeyError"

\* the except clause of line 29
ExtractCatches(err) == err \in {"KeyError", "IndexError"}

\* a well-formed S3 notification for one object
S3Event(bucket, key) == [Records |-> << [s3 |-> [bucket |-> [name |-> bucket], object |-> [key |-> key]]] >>]

\* the escaped object keys of the model
Keys == { <<"f">>, <<"a", "+", "b", "%", "2", "0", "c", "%", "2", "B">> }

DefaultEvent == S3Event("bucket-1", <<"f">>)

GoodEvents == {S3Event("bucket-1", k) : k \in Keys}

\* payloads on which lines 25-28 fail, one per lookup that can fail
BadEvents ==
    { [detail |-> "no Records"],
      [Records |-> <<>>],
      [Records |-> << [eventName |-> "ObjectCreated:Put"] >>],
      [Records |-> << [s3 |-> [object |-> [key |-> <<"f">>]]] >>],
      [Records |-> << [s3 |-> [bucket |-> [arn |-> "arn:aws:s3:::bucket-1"], object |-> [key |-> <<"f">>]]] >>],
      [Records |-> << [s3 |-> [bucket |-> [name |-> "bucket-1"]]] >>],
      [Records |-> << [s3 |-> [bucket |-> [name |-> "bucket-1"], object |-> [size |-> "1"]]] >> ] }

(***************************************************************************)
(* lambda_function.py: the stored object (lines 35-42).  The object is     *)
(* described by what s3.get_object, decode and csv.reader make of it:      *)
(*   kind "NoSuchKey"   : get_object raises;                               *)
(*   kind "undecodable" : the body is not UTF-8, decode raises;            *)
(*   kind "csv"         : csv_reader yields the items of `rows` in order   *)
(*     (the first is the header) and then either stops (error_after        *)
(*     FALSE) or raises csv.Error on the next item (error_after TRUE).     *)
(***************************************************************************)
Fields == { <<"a">>, <<"\"", "\\">> }

SmallRows == SeqsUpTo(Fields, MaxFields)

CsvObject(rows, err) == [kind |-> "csv", rows |-> rows, error_after |-> err]

SmallObjects ==
    { [kind |-> k, rows |-> <<>>, error_after |-> FALSE] : k \in {"NoSuchKey", "undecodable"} }
    \cup { CsvObject(rows, err) : rows \in SeqsUpTo(SmallRows, MaxSmallRows + 1), err \in BOOLEAN }

BigHeader == << <<"a">> >>

BigRow(k) == IF k % 2 = 1 THEN << <<"a">> >> ELSE << <<"\"", "\\">>, <<"a">> >>

BigSizes == { q * KINESIS_BATCH_SIZE + d : q \in 1..MaxFullBatches, d \in {-1, 0, 1} }

BigObjects == { CsvObject([i \in 1..(n + 1) |-> IF i = 1 THEN BigHeader ELSE BigRow(i - 1)], FALSE) : n \in BigSizes }

\* every payload with a few objects, and the default payload with every object
Scenarios ==
    ((GoodEvents \cup BadEvents) \X { o \in SmallObjects : Len(o.rows) <= 1 })
    \cup ({DefaultEvent} \X (SmallObjects \cup BigObjects))

\* the number of data rows of a CSV object
DataRows(o) == IF Len(o.rows) = 0 THEN 0 ELSE Len(o.rows) - 1

(***************************************************************************)
(* lambda_function.py: one record (lines 53-62).                           *)
(***************************************************************************)
zip_swapped(h, r) == [i \in 1..Min(Len(h), Len(r)) |-> <<r[i], h[i]>>]

\* zip(header, row): pairs up to the shorter of the two
zip(h, r) == [i \in 1..Min(Len(h), Len(r)) |-> <<h[i], r[i]>>]

\* d[k] = v on a dict: an existing key keeps its place and takes the value
DictSet(d, k, v) ==
    IF \E i \in DOMAIN d : d[i][1] = k
    THEN [i \in DOMAIN d |-> IF d[i][1] = k THEN <<k, v>> ELSE d[i]]
    ELSE Append(d, <<k, v>>)

RECURSIVE dict(_)
\* dict(pairs): the pairs inserted in order
dict(pairs) ==
    IF pairs = <<>> THEN <<>>
    ELSE LET n == Len(pairs)
         IN  DictSet(dict(SubSeq(pairs, 1, n - 1)), pairs[n][1], pairs[n][2])

\* the items of a dict as a set: two dicts are equal iff their items are
DictItems(d) == {d[i] : i \in DOMAIN d}

DictKeys(d) == {d[i][1] : i \in DOMAIN d}

\* d[k], for k a key of d
DictGet(d, k) == d[CHOOSE i \in DOMAIN d : d[i][1] = k][2]

RECURSIVE JsonEscape(_)
\* the body of a JSON string literal: '"' and '\' take a backslash
JsonEscape(s) ==
    IF s = <<>> THEN <<>>
    ELSE (IF Head(s) \in {"\"", "\\"} THEN <<"\\", Head(s)>> ELSE <<Head(s)>>) \o JsonEscape(Tail(s))

JsonString(s) == <<"\"">> \o JsonEscape(s) \o <<"\"">>

RECURSIVE JsonMembers(_)
JsonMembers(d) ==
    IF d = <<>> THEN <<>>
    ELSE JsonString(d[1][1]) \o <<":", " ">> \o JsonString(d[1][2])
         \o (IF Len(d) = 1 THEN <<>> ELSE <<",", " ">> \o JsonMembers(Tail(d)))

\* json.dumps of a dict of strings, with the default separators
json_dumps(d) == <<"{">> \o JsonMembers(d) \o <<"}">>

\* lines 59-62: the Kinesis record of a CSV record, with partition key u
KinesisRecord(d, u) == [Data |-> json_dumps(d) \o <<"\n">>, PartitionKey |-> u]

(***************************************************************************)
(* json.loads on an object of strings, as a consumer of the stream decodes *)
(* a payload.  ok is FALSE where json.loads raises.                        *)
(***************************************************************************)
RECURSIVE SkipWs(_, _)
SkipWs(s, i) == IF i <= Len(s) /\ s[i] \in {" ", "\n"} THEN SkipWs(s, i + 1) ELSE i

RECURSIVE ScanString(_, _, _)
\* the string literal whose body starts at s[i]
ScanString(s, i, acc) ==
    IF i > Len(s) THEN [ok |-> FALSE, val |-> acc, next |-> i]
    ELSE IF s[i] = "\"" THEN [ok |-> TRUE, val |-> acc, next |-> i + 1]
    ELSE IF s[i] = "\\"
         THEN IF i + 1 <= Len(s) /\ s[i + 1] \in {"\"", "\\"}
              THEN ScanString(s, i + 2, Append(acc, s[i + 1]))
              ELSE [ok |-> FALSE, val |-> acc, next |-> i]
    ELSE ScanString(s, i + 1, Append(acc, s[i]))

ParseString(s, i) ==
    IF i <= Len(s) /\ s[i] = "\"" THEN ScanString(s, i + 1, <<>>)
    ELSE [ok |-> FALSE, val |-> <<>>, next |-> i]

RECURSIVE ParseMembers(_, _, _)
ParseMembers(s, i, acc) ==
    LET k == ParseString(s, SkipWs(s, i))
        c == SkipWs(s, k.next)
        v == ParseString(s, SkipWs(s, c + 1))
        e == SkipWs(s, v.next)
        acc2 == DictSet(acc, k.val, v.val)
    IN  IF ~k.ok \/ c > Len(s) \/ s[c] # ":" THEN [ok |-> FALSE, val |-> acc]
        ELSE IF ~v.ok \/ e > Len(s) THEN [ok |-> FALSE, val |-> acc]
        ELSE IF s[e] = "," THEN ParseMembers(s, e + 1, acc2)
        ELSE IF s[e] = "}" THEN [ok |-> SkipWs(s, e + 1) > Len(s), val |-> acc2]
        ELSE [ok |-> FALSE, val |-> acc]

json_loads(s) ==
    LET i == SkipWs(s, 1)
        j == SkipWs(s, i + 1)
    IN  IF i > Len(s) \/ s[i] # "{" THEN [ok |-> FALSE, val |-> <<>>]
        ELSE IF j <= Len(s) /\ s[j] = "}" THEN [ok |-> SkipWs(s, j + 1) > Len(s), val |-> <<>>]
        ELSE ParseMembers(s, j, <<>>)

(***************************************************************************)
(* lambda_function.py: lambda_handler and _send_batch_to_kinesis.          *)
(***************************************************************************)
Response(code, body) == [statusCode |-> code, body |-> body]

NoResult == Response(0, <<>>)

\* the count a 200 response reports
ReportedCount(r) == r.body[2]

\* the exception lines 37-42 raise on this object, or "none"
FetchError(o) ==
    IF o.kind = "NoSuchKey" THEN "ClientError"
    ELSE IF o.kind = "undecodable" THEN "UnicodeDecodeError"
    ELSE IF Len(o.rows) = 0 THEN (IF o.error_after THEN "csv.Error" ELSE "StopIteration")
    ELSE "none"

BatchFull_off_by_one(b) == Len(b) > KINESIS_BATCH_SIZE

\* line 66
BatchFull(b) == Len(b) = KINESIS_BATCH_SIZE

TailPending_always(b) == TRUE

\* line 72
TailPending(b) == b # <<>>

ClearBatch_kept(b) == b

\* line 69
ClearBatch(b) == <<>>

SendCatches_reraised(exc) == exc = "none"

\* line 98: except Exception takes whatever put_records or the logging raised
SendCatches(exc) == exc \in {"none", "ClientError"}

PcWhileSending_no_wait(full) == IF full THEN "loop" ELSE "return"

\* lines 67 and 73: the call is synchronous, the handler waits for its response
PcWhileSending(full) == IF full THEN "send_full" ELSE "send_tail"

\* kinesis.put_records(Records = b) is issued
IssuePutRecords(b) ==
    /\ calls' = Append(calls, b)
    /\ in_flight' = in_flight + 1

FwdInit(ev, obj) ==
    /\ event = ev
    /\ s3_object = obj
    /\ pc = "extract"
    /\ bucket_name = ""
    /\ object_key = <<>>
    /\ header = <<>>
    /\ csv_pos = 0
    /\ row = <<>>
    /\ record_data = <<>>
    /\ kinesis_record = [Data |-> <<>>, PartitionKey |-> 0]
    /\ records_batch = <<>>
    /\ records_sent_count = 0
    /\ result = NoResult
    /\ raised = "none"
    /\ uuid_count = 0
    /\ s3_gets = 0
    /\ calls = <<>>
    /\ in_flight = 0
    /\ delivered = 0
    /\ send_failures = 0

\* lines 24-33
Extract ==
    /\ pc = "extract"
    /\ LET err == ExtractError(event)
       IN  IF err = "none"
           THEN /\ bucket_name' = event.Records[1].s3.bucket.name
                /\ object_key' = unquote_plus(event.Records[1].s3.object.key)
                /\ pc' = "fetch"
                /\ UNCHANGED <<result, raised>>
           ELSE IF ExtractCatches(err)
           THEN /\ result' = Response(400, <<"Invalid S3 event format.">>)
                /\ pc' = "done"
                /\ UNCHANGED <<bucket_name, object_key, raised>>
           ELSE /\ raised' = err
                /\ pc' = "raised"
                /\ UNCHANGED <<bucket_name, object_key, result>>
    /\ UNCHANGED <<event, s3_object, header, csv_pos, row, record_data, kinesis_record, records_batch, records_sent_count, uuid_count, s3_gets, calls, in_flight, delivered, send_failures>>
    /\ UNCHANGED job_vars

\* lines 36-48
Fetch ==
    /\ pc = "fetch"
    /\ s3_gets' = s3_gets + 1
    /\ IF FetchError(s3_object) = "none"
       THEN /\ header' = s3_object.rows[1]
            /\ csv_pos' = 1
            /\ records_batch' = <<>>
            /\ records_sent_count' = 0
            /\ pc' = "loop"
            /\ UNCHANGED result
       ELSE /\ result' = Response(500, <<"Failed to process S3 object.">>)
            /\ pc' = "done"
            /\ UNCHANGED <<header, csv_pos, records_batch, records_sent_count>>
    /\ UNCHANGED <<event, s3_object, bucket_name, object_key, row, record_data, kinesis_record, raised, uuid_count, calls, in_flight, delivered, send_failures>>
    /\ UNCHANGED job_vars

\* lines 51-67: the next row is read, converted and appended; a full batch is sent
ProcessRow ==
    /\ pc = "loop"
    /\ csv_pos < Len(s3_object.rows)
    /\ LET r == s3_object.rows[csv_pos + 1]
           d == dict(zip(header, r))
           k == KinesisRecord(d, uuid_count + 1)
           b == Append(records_batch, k)
       IN  /\ row' = r
           /\ record_data' = d
           /\ kinesis_record' = k
           /\ records_batch' = b
           /\ IF BatchFull(b)
              THEN IssuePutRecords(b) /\ pc' = PcWhileSending(TRUE)
              ELSE pc' = "loop" /\ UNCHANGED <<calls, in_flight>>
    /\ csv_pos' = csv_pos + 1
    /\ uuid_count' = uuid_count + 1
    /\ UNCHANGED <<event, s3_object, bucket_name, object_key, header, records_sent_count, result, raised, s3_gets, delivered, send_failures>>
    /\ UNCHANGED job_vars

\* line 51: csv_reader raises on the next row; nothing around the loop catches it
RowError ==
    /\ pc = "loop"
    /\ csv_pos = Len(s3_object.rows)
    /\ s3_object.error_after
    /\ raised' = "csv.Error"
    /\ pc' = "raised"
    /\ UNCHANGED <<event, s3_object, bucket_name, object_key, header, csv_pos, row, record_data, kinesis_record, records_batch, records_sent_count, result, uuid_count, s3_gets, calls, in_flight, delivered, send_failures>>
    /\ UNCHANGED job_vars

\* lines 71-73: the rows are exhausted; a pending batch is sent
EndOfRows ==
    /\ pc = "loop"
    /\ csv_pos = Len(s3_object.rows)
    /\ ~s3_object.error_after
    /\ IF TailPending(records_batch)
       THEN IssuePutRecords(records_batch) /\ pc' = PcWhileSending(FALSE)
       ELSE pc' = "return" /\ UNCHANGED <<calls, in_flight>>
    /\ UNCHANGED <<event, s3_object, bucket_name, object_key, header, csv_pos, row, record_data, kinesis_record, records_batch, records_sent_count, result, raised, uuid_count, s3_gets, delivered, send_failures>>
    /\ UNCHANGED job_vars

\* lines 83-99, then 68-69 or 74: put_records answers, with `failed` of the
\* batch's records not accepted, by a response or (exc) by an exception
SendReturns(exc, failed) ==
    /\ pc \in {"send_full", "send_tail"}
    /\ in_flight' = in_flight - 1
    /\ delivered' = delivered + (Len(records_batch) - failed)
    /\ send_failures' = send_failures + (IF exc # "none" \/ failed > 0 THEN 1 ELSE 0)
    /\ IF SendCatches(exc)
       THEN /\ records_sent_count' = records_sent_count + Len(records_batch)
            /\ IF pc = "send_full"
               THEN records_batch' = ClearBatch(records_batch) /\ pc' = "loop"
               ELSE pc' = "return" /\ UNCHANGED records_batch
            /\ UNCHANGED raised
       ELSE /\ raised' = exc
            /\ pc' = "raised"
            /\ UNCHANGED <<records_sent_count, records_batch>>
    /\ UNCHANGED <<event, s3_object, bucket_name, object_key, header, csv_pos, row, record_data, kinesis_record, result, uuid_count, s3_gets, calls>>
    /\ UNCHANGED job_vars

\* lines 96-97: FailedRecordCount is 0
SendSucceeds == SendReturns("none", 0)

\* lines 90-95: FailedRecordCount > 0, the failures are printed
SendPartlyFails == \E failed \in {1, Len(records_batch)} : failed >= 1 /\ SendReturns("none", failed)

\* lines 98-99: put_records raises
SendRaises == SendReturns("ClientError", Len(records_batch))

\* lines 76-80
Return ==
    /\ pc = "return"
    /\ result' = Response(200, <<"Successfully sent", records_sent_count, "records.">>)
    /\ pc' = "done"
    /\ UNCHANGED <<event, s3_object, bucket_name, object_key, header, csv_pos, row, record_data, kinesis_record, records_batch, records_sent_count, raised, uuid_count, s3_gets, calls, in_flight, delivered, send_failures>>
    /\ UNCHANGED job_vars

(***************************************************************************)
(* emr_script_1.py: the table projection job.  A table is its schema, the  *)
(* sequence of its column names; the catalog maps the qualified name of    *)
(* each table that exists to its schema.                                   *)
(***************************************************************************)
RECURSIVE split(_, _)
\* str.split(sep): the pieces between the separators, [''] for ''
split(s, sep) ==
    IF \A i \in DOMAIN s : s[i] # sep THEN <<s>>
    ELSE LET i == CHOOSE j \in DOMAIN s : s[j] = sep /\ \A m \in 1..(j - 1) : s[m] # sep
         IN  <<SubSeq(s, 1, i - 1)>> \o split(SubSeq(s, i + 1, Len(s)), sep)

RECURSIVE strip(_)
\* str.strip(): leading and trailing blanks removed
strip(s) ==
    IF s = <<>> THEN s
    ELSE IF Head(s) = " " THEN strip(Tail(s))
    ELSE IF s[Len(s)] = " " THEN strip(SubSeq(s, 1, Len(s) - 1))
    ELSE s

\* line 72
ParseColumns(columns_str) == LET parts == split(columns_str, ",") IN [i \in DOMAIN parts |-> strip(parts[i])]

\* lines 25-26: f"{db}.{table}"
QualifiedName(db, table) == db \o <<".">> \o table

\* line 62, negated
ArgvAccepted(a) == Len(a) = EXPECTED_ARGV_LEN

SourceSchema == << <<"a">>, <<"b">>, <<"c">> >>

SourceName == QualifiedName(<<"d", "1">>, <<"t", "1">>)

DestName == QualifiedName(<<"d", "2">>, <<"t", "2">>)

\* the catalogs the job starts on: the source exists, the destination may
Catalogs ==
    { [n \in {SourceName} |-> SourceSchema],
      [n \in {SourceName, DestName} |-> IF n = SourceName THEN SourceSchema ELSE << <<"z">> >>] }

\* the <columns> arguments of the model
ColumnArgs ==
    { <<"a">>, <<"c", ",", "a">>, <<"b", ",", " ", "c", " ">>, <<"a", ",", "x">>, <<"a", ",", "a">>, <<>> }

\* the command lines of the model: every length up to MaxArgvLen, and for the
\* accepted length an existing or a missing source table and each column list
Argvs ==
    { [i \in 1..n |-> <<"x">>] : n \in (1..MaxArgvLen) \ {EXPECTED_ARGV_LEN} }
    \cup { << <<"s">>, <<"d", "1">>, t, <<"d", "2">>, <<"t", "2">>, c >> : t \in { <<"t", "1">>, <<"t", "9">> }, c \in ColumnArgs }

\* the steps an external failure can hit
FaultPoints == {"session", "read", "write"}

HasDuplicates(q) == \E i, j \in DOMAIN q : i # j /\ q[i] = q[j]

JobInit(a, f, c) ==
    /\ argv = a
    /\ faults = f
    /\ catalog = c
    /\ job_pc = "main"
    /\ spark = "none"
    /\ columns_to_keep = <<>>
    /\ df = <<>>
    /\ transformed_df = <<>>
    /\ exit_code = 0
    /\ job_failed_at = "none"
    /\ usage_printed = FALSE
    /\ table_ops = 0

ExceptExit_status_zero(step) ==
    /\ job_failed_at' = step
    /\ exit_code' = 0
    /\ job_pc' = "exited"

\* lines 56-58: the except clause prints the error and exits with status 1
ExceptExit(step) ==
    /\ job_failed_at' = step
    /\ exit_code' = 1
    /\ job_pc' = "exited"

\* lines 61-72
Main ==
    /\ job_pc = "main"
    /\ IF ArgvAccepted(argv)
       THEN /\ columns_to_keep' = ParseColumns(argv[6])
            /\ job_pc' = "session"
            /\ UNCHANGED <<exit_code, usage_printed>>
       ELSE /\ usage_printed' = TRUE
            /\ exit_code' = -1
            /\ job_pc' = "exited"
            /\ UNCHANGED columns_to_keep
    /\ UNCHANGED <<argv, faults, catalog, spark, df, transformed_df, job_failed_at, table_ops>>
    /\ UNCHANGED fwd_vars

\* lines 17-22
CreateSession ==
    /\ job_pc = "session"
    /\ IF "session" \in faults
       THEN ExceptExit("session") /\ UNCHANGED spark
       ELSE spark' = "active" /\ job_pc' = "read" /\ UNCHANGED <<exit_code, job_failed_at>>
    /\ UNCHANGED <<argv, faults, catalog, columns_to_keep, df, transformed_df, table_ops, usage_printed>>
    /\ UNCHANGED fwd_vars

\* lines 25-34
ReadTable ==
    /\ job_pc = "read"
    /\ table_ops' = table_ops + 1
    /\ LET source_table_name == QualifiedName(argv[2], argv[3])
       IN  IF "read" \in faults \/ source_table_name \notin DOMAIN catalog
           THEN ExceptExit("read") /\ UNCHANGED df
           ELSE df' = catalog[source_table_name] /\ job_pc' = "select" /\ UNCHANGED <<exit_code, job_failed_at>>
    /\ UNCHANGED <<argv, faults, catalog, spark, columns_to_keep, transformed_df, usage_printed>>
    /\ UNCHANGED fwd_vars

\* lines 36-42
SelectColumns ==
    /\ job_pc = "select"
    /\ IF \E i \in DOMAIN columns_to_keep : \A j \in DOMAIN df : df[j] # columns_to_keep[i]
       THEN ExceptExit("select") /\ UNCHANGED transformed_df
       ELSE transformed_df' = columns_to_keep /\ job_pc' = "write" /\ UNCHANGED <<exit_code, job_failed_at>>
    /\ UNCHANGED <<argv, faults, catalog, spark, columns_to_keep, df, table_ops, usage_printed>>
    /\ UNCHANGED fwd_vars

\* lines 44-50: saveAsTable in overwrite mode; the engine refuses duplicate columns
WriteTable ==
    /\ job_pc = "write"
    /\ table_ops' = table_ops + 1
    /\ LET destination_table_name == QualifiedName(argv[4], argv[5])
       IN  IF "write" \in faults \/ HasDuplicates(transformed_df)
           THEN ExceptExit("write") /\ UNCHANGED catalog
           ELSE /\ catalog' = [n \in DOMAIN catalog \cup {destination_table_name} |-> IF n = destination_table_name THEN transformed_df ELSE catalog[n]]
                /\ job_pc' = "stop"
                /\ UNCHANGED <<exit_code, job_failed_at>>
    /\ UNCHANGED <<argv, faults, spark, columns_to_keep, df, transformed_df, usage_printed>>
    /\ UNCHANGED fwd_vars

\* lines 52-54, after which process_glue_data returns and the script ends
StopSession ==
    /\ job_pc = "stop"
    /\ spark' = "stopped"
    /\ exit_code' = 0
    /\ job_pc' = "exited"
    /\ UNCHANGED <<argv, faults, catalog, columns_to_keep, df, transformed_df, job_failed_at, table_ops, usage_printed>>
    /\ UNCHANGED fwd_vars

(***************************************************************************)
(* The specifications: one invocation of lambda_handler on each scenario   *)
(* (Spec), and one run of the projection job on each command line,         *)
(* catalog and set of external failures (JobSpec).                         *)
(***************************************************************************)
JobIdle == JobInit(<< <<"s">> >>, {}, [n \in {SourceName} |-> SourceSchema])

FwdIdle == FwdInit(DefaultEvent, CsvObject(<<>>, FALSE))

Init == JobIdle /\ \E sc \in Scenarios : FwdInit(sc[1], sc[2])

Next ==
    \/ Extract
    \/ Fetch
    \/ ProcessRow
    \/ RowError
    \/ EndOfRows
    \/ SendSucceeds
    \/ SendPartlyFails
    \/ SendRaises
    \/ Return

Spec == Init /\ [][Next]_vars

JobStart == FwdIdle /\ \E a \in Argvs, f \in SUBSET FaultPoints, c \in Catalogs : JobInit(a, f, c)

JobNext ==
    \/ Main
    \/ CreateSession
    \/ ReadTable
    \/ SelectColumns
    \/ WriteTable
    \/ StopSession

JobSpec == JobStart /\ [][JobNext]_vars

(***************************************************************************)
(* Vocabulary of the properties.                                           *)
(***************************************************************************)
\* the data rows of the object of this run
N == DataRows(s3_object)

\* ceil(n / b)
Ceil(n, b) == (n + b - 1) \div b

\* the payload names a bucket and a key, and the object is a CSV text whose
\* header and rows all parse
ParsableRun ==
    /\ ExtractError(event) = "none"
    /\ FetchError(s3_object) = "none"
    /\ ~s3_object.error_after

Completed == pc = "done" /\ result.statusCode = 200

\* the handler is past line 63 for some row: row, record_data and
\* kinesis_record are those of the last row read
RowBuilt == csv_pos >= 2 /\ pc \in {"loop", "send_full", "send_tail", "return", "done"}

\* what the operating system sees of an exit argument
ProcessStatus(code) == code % 256

\* the job's inputs make one of its steps fail
JobMustFail ==
    \/ faults # {}
    \/ QualifiedName(argv[2], argv[3]) \notin DOMAIN catalog
    \/ \E c \in {ParseColumns(argv[6])[i] : i \in DOMAIN ParseColumns(argv[6])} : \A j \in DOMAIN SourceSchema : SourceSchema[j] # c
    \/ HasDuplicates(ParseColumns(argv[6]))

(***************************************************************************)
(* The properties.                                                         *)
(***************************************************************************)
\* C1: a run on a CSV object with a header and N data rows that all parse
\* ends with statusCode 200, reports N records and has issued exactly
\* ceil(N / KINESIS_BATCH_SIZE) put_records calls (none when N = 0).
C1_BatchCount ==
    ParsableRun =>
        /\ pc # "raised"
        /\ pc = "done" =>
            /\ result.statusCode = 200
            /\ ReportedCount(result) = N
            /\ Len(calls) = Ceil(N, KINESIS_BATCH_SIZE)
            /\ (N = 0 => calls = <<>>)

C1_Witness == Completed /\ N = KINESIS_BATCH_SIZE + 1 /\ Len(calls) = 2 /\ ReportedCount(result) = N

\* C2: on a payload whose Records list is absent or empty, or whose first
\* record lacks s3, the bucket name or the object key, the handler returns
\* statusCode 400 and makes no get_object and no put_records call.
C2_InvalidEvent ==
    ExtractError(event) # "none" =>
        /\ pc \in {"extract", "done"}
        /\ raised = "none"
        /\ s3_gets = 0
        /\ calls = <<>>
        /\ pc = "done" => result.statusCode = 400

C2_Witness == pc = "done" /\ result.statusCode = 400 /\ "Records" \in DOMAIN event /\ Len(event.Records) = 0

\* C3 (as stated): once bucket and key are extracted, a failure of the
\* fetch, of the decoding or of the CSV parsing, of the header or of any
\* later row, ends the run with statusCode 500 and never with an exception.
C3_ParseFailureIs500 ==
    (ExtractError(event) = "none" /\ (FetchError(s3_object) # "none" \/ s3_object.error_after)) =>
        /\ raised = "none"
        /\ pc = "done" => result.statusCode = 500

\* C4: a failed send (an exception of put_records, or a response with
\* FailedRecordCount > 0) never leaves the handler and never stops it: the
\* batch counts as sent, the run goes on, and a run on a parsable object
\* still ends with statusCode 200, all ceil(N / KINESIS_BATCH_SIZE) calls
\* made and all N records reported, whatever was delivered.
C4_SendFailureNotFatal ==
    /\ raised # "ClientError"
    /\ delivered <= Len(Flatten(calls))
    /\ send_failures > 0 =>
        /\ pc \in {"loop", "send_full", "send_tail", "return", "done", "raised"}
        /\ pc \in {"loop", "send_full", "send_tail", "return"} => ENABLED Next
        /\ pc \in {"loop", "return"} => records_sent_count = Len(Flatten(calls))
        /\ pc = "raised" => s3_object.error_after
        /\ pc = "done" =>
            /\ result.statusCode = 200
            /\ ReportedCount(result) = N
            /\ Len(calls) = Ceil(N, KINESIS_BATCH_SIZE)

C4_Witness == Completed /\ Len(calls) >= 2 /\ send_failures = Len(calls) /\ delivered = 0 /\ ReportedCount(result) = N

\* C5: the job exits with -1 (a non-zero status), no session created and no
\* table touched, when sys.argv does not hold five positional arguments;
\* with a non-zero status when session creation, table read, column
\* selection or table write fails; and with 0 when none of them fails.
C5_ExitStatus ==
    job_pc = "exited" =>
        /\ ~ArgvAccepted(argv) => usage_printed /\ exit_code = -1 /\ spark = "none" /\ table_ops = 0 /\ job_failed_at = "none"
        /\ ArgvAccepted(argv) =>
            /\ ~usage_printed
            /\ exit_code = 0 <=> ~JobMustFail
            /\ exit_code = 0 <=> job_failed_at = "none"
            /\ exit_code \in {0, 1}
        /\ exit_code # 0 => ProcessStatus(exit_code) # 0
        /\ Len(argv) - 1 = 5 <=> ArgvAccepted(argv)

C5_Witness == job_pc = "exited" /\ exit_code = 1 /\ job_failed_at = "select" /\ spark = "active"

\* C6 (as stated): a run of the job that created a session has stopped it
\* by the time the process exits, on the success path and on every failure
\* path.
C6_SessionStopped == (job_pc = "exited" /\ spark # "none") => spark = "stopped"

\* the header-to-value mapping C7 speaks of
ZippedItems == {<<header[i], row[i]>> : i \in 1..Min(Len(header), Len(row))}

\* C7 (as stated): the record of a row maps the i-th header field to the
\* i-th value for every i < min(H, L) and holds nothing else; for L < H the
\* trailing header fields are absent; for L = H the decoded payload is
\* exactly that mapping.
C7_PositionalRecord ==
    RowBuilt =>
        LET m == Min(Len(header), Len(row))
            decoded == json_loads(kinesis_record.Data)
        IN  /\ \A i \in 1..m : header[i] \in DictKeys(record_data) /\ DictGet(record_data, header[i]) = row[i]
            /\ DictKeys(record_data) = {header[i] : i \in 1..m}
            /\ \A i \in (m + 1)..Len(header) : header[i] \notin DictKeys(record_data)
            /\ Len(row) = Len(header) => decoded.ok /\ DictItems(decoded.val) = ZippedItems

\* C7 (amended): the above holds for a header whose field names are pairwise
\* distinct.  For every header the record holds exactly the names of the
\* first min(H, L) header fields, each once and mapped to the value at the
\* last of its positions among them, and the decoded payload is the record.
C7_DistinctHeaderRecord ==
    RowBuilt =>
        LET m == Min(Len(header), Len(row))
            decoded == json_loads(kinesis_record.Data)
            last(k) == CHOOSE i \in 1..m : header[i] = k /\ \A j \in (i + 1)..m : header[j] # k
        IN  /\ DictKeys(record_data) = {header[i] : i \in 1..m}
            /\ ~HasDuplicates([i \in DOMAIN record_data |-> record_data[i][1]])
            /\ \A k \in DictKeys(record_data) : DictGet(record_data, k) = row[last(k)]
            /\ decoded.ok /\ DictItems(decoded.val) = DictItems(record_data)
            /\ kinesis_record.Data[Len(kinesis_record.Data)] = "\n"
            /\ ~HasDuplicates(header) =>
                /\ \A i \in 1..m : DictGet(record_data, header[i]) = row[i]
                /\ Len(record_data) = m
                /\ \A i \in (m + 1)..Len(header) : header[i] \notin DictKeys(record_data)
                /\ Len(row) = Len(header) => DictItems(decoded.val) = ZippedItems

C7_Witness ==
    /\ RowBuilt
    /\ ~HasDuplicates(header)
    /\ Len(header) = 2
    /\ Len(row) = 2
    /\ row[2] = <<"\"", "\\">>
    /\ DictItems(json_loads(kinesis_record.Data).val) = ZippedItems

\* C8: every put_records call carries between 1 and KINESIS_BATCH_SIZE
\* records, every call but the last exactly KINESIS_BATCH_SIZE, and at the
\* top of the loop, after the flush check, fewer than KINESIS_BATCH_SIZE
\* records are pending.
C8_BatchSizes ==
    /\ \A i \in DOMAIN calls :
        /\ Len(calls[i]) >= 1
        /\ Len(calls[i]) <= KINESIS_BATCH_SIZE
        /\ i < Len(calls) => Len(calls[i]) = KINESIS_BATCH_SIZE
    /\ pc = "loop" => Len(records_batch) < KINESIS_BATCH_SIZE

C8_Witness == Completed /\ Len(calls) >= 2 /\ Len(calls[Len(calls)]) = 1 /\ Len(calls[1]) = KINESIS_BATCH_SIZE

\* C9: the records handed to put_records, in call order, followed by the
\* pending ones, are the records of the rows read so far, each once and in
\* file order (the k-th record carries the k-th partition key drawn and the
\* payload of the k-th row), whether or not a send failed; a completed run
\* has handed over exactly the N rows.
C9_EachRowOnce ==
    pc \in {"loop", "send_full", "send_tail", "return", "done"} /\ csv_pos >= 1 =>
        LET sent == Flatten(calls)
            pending == IF pc = "loop" THEN records_batch ELSE <<>>
            all == sent \o pending
            before == Len(sent) - Len(calls[Len(calls)])
        IN  /\ Len(all) = csv_pos - 1
            /\ \A j \in DOMAIN all : all[j].PartitionKey = j
            /\ pc \in {"send_full", "send_tail"} =>
                \A j \in DOMAIN calls[Len(calls)] :
                    calls[Len(calls)][j].Data = KinesisRecord(dict(zip(header, s3_object.rows[before + j + 1])), 0).Data
            /\ Completed => Len(sent) = N

C9_Witness == Completed /\ Len(calls) >= 2 /\ send_failures >= 1 /\ Len(Flatten(calls)) = N

\* C10: a row is read only while no put_records call is outstanding and the
\* pending batch is below the threshold, rows are read one at a time, and at
\* most one call is outstanding at any moment.
C10_Sequential ==
    /\ [](in_flight \in {0, 1})
    /\ [][ /\ in_flight' > in_flight => in_flight = 0
           /\ csv_pos' # csv_pos =>
                /\ csv_pos' = csv_pos + 1
                /\ in_flight = 0
                /\ csv_pos >= 1 => Len(records_batch) < KINESIS_BATCH_SIZE /\ Len(records_batch') = Len(records_batch) + 1
         ]_vars

C10_Witness == pc = "loop" /\ Len(calls) = 1 /\ in_flight = 0 /\ Len(records_batch) = 1 /\ csv_pos = KINESIS_BATCH_SIZE + 2

====
